---- MODULE Spec2Model ----
(***************************************************************************)
(* Model of the admin API service of gecko (api/admin/service.go).         *)
(*                                                                         *)
(* The Admin service is a set of synchronous RPC handlers.  Each handler   *)
(* is run by a request thread of the transport; several threads may run    *)
(* handlers at the same time.  A handler is modelled statement by          *)
(* statement: the position of each caller inside its handler is call[c].pc *)
(* and the labels are the source lines of service.go.                      *)
(*                                                                         *)
(* The collaborators (chains.Manager, api.Server, network.Network and the  *)
(* Performance profiler) are not part of service.go; their operations are  *)
(* modelled from the interface contracts of the design document and are    *)
(* the operators named Chain*, Server*, Network* and Perf* below.          *)
(***************************************************************************)
EXTENDS Integers, Sequences, FiniteSets, TLC

(***************************************************************************)
(* Bounds and input sets                                                   *)
(***************************************************************************)

\* Largest timestamp a peer's lastSent / lastReceived reaches.
MaxTime == 1

\* The request threads of the transport.
Callers == {"c1", "c2"}

\* Peers the network collaborator may know.
PeerIds == {"P1"}

\* Errors.  Nil is Go's nil error.
Nil == "nil"
ErrNotFound == "NotFound"
ErrAlreadyInProgress == "AlreadyInProgress"
ErrNotInProgress == "NotInProgress"
ErrIO == "IOError"
ErrAliasInUse == "AliasInUse"
ErrNoEndpoint == "NoSuchEndpoint"

\* File names handed to the profiler; the files of UncreatableFiles cannot
\* be created (missing directory, no permission).
Filenames == {"cpu.prof", "mem.prof", "/nodir/x.prof"}
UncreatableFiles == {"/nodir/x.prof"}

\* The profiler's output when no CPU profile is running (Idle).
NoFile == "<none>"

\* Chain identifiers (ids.ID).  EmptyID is the zero value of ids.ID.
EmptyID == 0
ChainIDs == {1, 2}

\* Names a caller may pass as args.Alias of AliasChain and GetBlockchainID.
AliasNames == {"a"}
\* Names a caller may pass as args.Chain of AliasChain.
ChainRefs == {"C", "idB", "a", "zz"}
\* Names a caller may pass to GetBlockchainID.
LookupNames == {"C", "a", "zz"}
\* Arguments of Alias.
Endpoints == {"bc/idA", "bc/a", "bc/zz"}
EndpointAliases == {"bc/a", "second"}

\* Identities a node may be constructed with: version, node ID, network ID.
Identities ==
    {[version   |-> [app |-> "avalanche", major |-> 0, minor |-> 5, patch |-> 7],
      nodeID    |-> "N1",
      networkID |-> 3],
     [version   |-> [app |-> "avalanche", major |-> 0, minor |-> 6, patch |-> 0],
      nodeID    |-> "N2",
      networkID |-> 12345]}

\* Global stack dumps the runtime may produce.
StackDumps == {"goroutine 1 [running]", "goroutine 7 [select]"}

\* Slice addresses.  NilSlice is Go's nil slice; LiveAddr is the storage the
\* network collaborator keeps its own peer list in.
NilSlice == 0
LiveAddr == 1
SnapshotAddrs == 2 .. (1 + Cardinality(Callers))

OpNames == {"GetNodeVersion", "GetNodeID", "GetNetworkID", "GetNetworkName",
            "GetBlockchainID", "Peers", "StartCPUProfiler", "StopCPUProfiler",
            "MemoryProfile", "LockProfile", "Alias", "AliasChain", "Stacktrace"}

(***************************************************************************)
(* Conversions                                                             *)
(***************************************************************************)

\* version.Version.String(): "<app>/<major>.<minor>.<patch>".
VersionString(v) ==
    v.app \o "/" \o ToString(v.major) \o "." \o ToString(v.minor)
          \o "." \o ToString(v.patch)

\* ids.ID.String(): the printable form of a chain identifier.
IDString(id) ==
    CASE id = 1 -> "idA"
      [] id = 2 -> "idB"
      [] OTHER  -> "11111111111111111111111111111111LpoYY"

\* genesis.NetworkName: static table from network ID to name.
NetworkName(networkID) ==
    CASE networkID = 1     -> "mainnet"
      [] networkID = 2     -> "cascade"
      [] networkID = 3     -> "denali"
      [] networkID = 12345 -> "local"
      [] OTHER             -> "network-" \o ToString(networkID)

\* cjson.Uint32(x): a Go type conversion from uint32 to a type whose
\* underlying type is uint32; the value is kept.
Uint32(x) == x

(***************************************************************************)
(* Collaborators                                                           *)
(***************************************************************************)

\* chains.Manager.Lookup(alias): the chain an alias names, or NotFound with
\* the zero ID.  aliases maps each registered name to its chain.
ChainLookup(aliases, name) ==
    IF name \in DOMAIN aliases
    THEN [id |-> aliases[name], err |-> Nil]
    ELSE [id |-> EmptyID, err |-> ErrNotFound]

\* chains.Manager.Alias(chainID, alias): registers alias for chainID; a name
\* that is already registered is refused and nothing changes.
ChainAlias(aliases, id, alias) ==
    IF alias \in DOMAIN aliases
    THEN [aliases |-> aliases, err |-> ErrAliasInUse]
    ELSE [aliases |-> (alias :> id) @@ aliases, err |-> Nil]

\* api.Server.AddAliasesWithReadLock(endpoint, alias): makes alias a further
\* name of the handler routed at endpoint.  table is the routing table (path
\* -> handler), entries the AliasEntry records {routingPath, aliasName}.
ServerAddAliasesWithReadLock(table, entries, endpoint, alias) ==
    IF alias \in DOMAIN table
    THEN [table |-> table, entries |-> entries, err |-> ErrAliasInUse]
    ELSE IF endpoint \notin DOMAIN table
    THEN [table |-> table, entries |-> entries, err |-> ErrNoEndpoint]
    ELSE [table   |-> (alias :> table[endpoint]) @@ table,
          entries |-> entries \cup {<<endpoint, alias>>},
          err     |-> Nil]

\* Performance.StartCPUProfiler(filename): Idle -> CPUProfiling.
PerfStartCPUProfiler(file, filename) ==
    IF file # NoFile
    THEN [file |-> file, err |-> ErrAlreadyInProgress]
    ELSE IF filename \in UncreatableFiles
    THEN [file |-> file, err |-> ErrIO]
    ELSE [file |-> filename, err |-> Nil]

\* Performance.StopCPUProfiler(): CPUProfiling -> Idle.
PerfStopCPUProfiler(file) ==
    IF file = NoFile
    THEN [file |-> file, err |-> ErrNotInProgress]
    ELSE [file |-> NoFile, err |-> Nil]

\* Performance.MemoryProfile(filename): one heap snapshot, stateless.
PerfMemoryProfile(filename) ==
    IF filename \in UncreatableFiles THEN ErrIO ELSE Nil

\* Performance.LockProfile(filename): one lock-contention snapshot, stateless.
PerfLockProfile(filename) ==
    IF filename \in UncreatableFiles THEN ErrIO ELSE Nil

\* network.PeerID: one record of a peer, all fields values.
PeerID(id, lastSent, lastReceived) ==
    [IP           |-> "10.0.0.1:9651",
     PublicIP     |-> "52.0.0.1:9651",
     ID           |-> id,
     Version      |-> "avalanche/0.5.7",
     LastSent     |-> lastSent,
     LastReceived |-> lastReceived]

\* network.Network.Peers(): a newly built slice holding a copy of every
\* record of the live peer list.
NetworkPeers(live) == [i \in 1 .. Len(live) |-> live[i]]

(***************************************************************************)
(* State                                                                   *)
(***************************************************************************)

VARIABLES
    ctor,            \* the identity NewService was called with
    service,         \* the Admin struct's identity fields
    cpuProfileFile,  \* ProfilerState: NoFile (Idle) or the open output path
    chainAliases,    \* chain manager: registered name -> chain ID
    router,          \* HTTP server: routing path -> handler
    aliasEntries,    \* HTTP server: registered <<routingPath, aliasName>>
    heap,            \* slice storage: address -> sequence of PeerID
    call,            \* per caller: the handler invocation in progress
    activeStarts,    \* successful Starts since the last successful Stop
    stopSeen,        \* per caller: a Stop succeeded since its Start began
    aliased          \* <<alias, chain ID>> of every AliasChain that succeeded

vars == <<ctor, service, cpuProfileFile, chainAliases, router, aliasEntries,
          heap, call, activeStarts, stopSeen, aliased>>

\* The state of the collaborators and of the service itself.
shared == <<service, cpuProfileFile, chainAliases, router, aliasEntries, heap>>

\* A reply struct as the RPC server hands it to a handler: all fields zero.
ZeroReply ==
    [success      |-> FALSE,
     version      |-> "",
     nodeID       |-> "",
     networkID    |-> 0,
     networkName  |-> "",
     blockchainID |-> "",
     peers        |-> NilSlice,
     stacktrace   |-> ""]

\* A caller that is not inside a handler.
IdleCall ==
    [op        |-> "none",
     pc        |-> "idle",
     filename  |-> "",
     alias     |-> "",
     endpoint  |-> "",
     chain     |-> "",
     chainID   |-> EmptyID,
     reply     |-> ZeroReply,
     ret       |-> Nil,
     calls     |-> << >>,   \* collaborator operations invoked, in order
     effects   |-> {},      \* registrations this call made
     cerr      |-> Nil,     \* the error a collaborator returned, if any
     snap      |-> << >>,   \* the peer records as returned by Peers
     idleEntry |-> FALSE]   \* no CPU profile was held when the call began

\* Variant: the network ID is not stored and keeps its zero value.
NewService_NoNetworkID(version, nodeID, networkID) ==
    [version |-> version, nodeID |-> nodeID, networkID |-> 0]

\* NewService: the Admin struct built from the constructor's arguments.
NewService(version, nodeID, networkID) ==
    [version |-> version, nodeID |-> nodeID, networkID |-> networkID]

Init ==
    /\ ctor \in Identities
    /\ service = NewService(ctor.version, ctor.nodeID, ctor.networkID)
    /\ cpuProfileFile = NoFile
    /\ chainAliases = ("idA" :> 1) @@ ("idB" :> 2) @@ ("C" :> 1)
    /\ router = ("bc/idA" :> "handlerA") @@ ("bc/idB" :> "handlerB")
    /\ aliasEntries = {}
    /\ heap = [a \in {LiveAddr} \cup SnapshotAddrs |-> << >>]
    /\ call = [c \in Callers |-> IdleCall]
    /\ activeStarts = 0
    /\ stopSeen = [c \in Callers |-> FALSE]
    /\ aliased = {}

(***************************************************************************)
(* History of the profiler calls                                           *)
(***************************************************************************)

\* caller c's handler op returns in this step
Completes(c, op) ==
    /\ call[c].pc # "done"
    /\ call'[c].pc = "done"
    /\ call'[c].op = op

StartSucceeds == \E c \in Callers :
    Completes(c, "StartCPUProfiler") /\ call'[c].ret = Nil
StopSucceeds == \E c \in Callers :
    Completes(c, "StopCPUProfiler") /\ call'[c].ret = Nil

History ==
    /\ activeStarts' = IF StopSucceeds THEN 0
                       ELSE IF StartSucceeds
                       THEN (IF activeStarts < 2 THEN activeStarts + 1 ELSE 2)
                       ELSE activeStarts
    /\ stopSeen' = [c \in Callers |->
                      IF call'[c].op # "StartCPUProfiler" THEN FALSE
                      ELSE IF call[c].pc = "idle" THEN FALSE
                      ELSE stopSeen[c] \/ StopSucceeds]
    /\ aliased' = aliased \cup
                    {<<call'[c].alias, call'[c].chainID>> :
                        c \in {d \in Callers : /\ Completes(d, "AliasChain")
                                                /\ call'[d].ret = Nil}}

(***************************************************************************)
(* Request dispatch                                                        *)
(***************************************************************************)

NoArgs == [filename |-> "", alias |-> "", endpoint |-> "", chain |-> ""]

\* The argument structs a caller may send with each method.
ArgsFor(op) ==
    CASE op \in {"StartCPUProfiler", "MemoryProfile", "LockProfile"} ->
            {[NoArgs EXCEPT !.filename = f] : f \in Filenames}
      [] op = "GetBlockchainID" ->
            {[NoArgs EXCEPT !.alias = a] : a \in LookupNames}
      [] op = "Alias" ->
            {[NoArgs EXCEPT !.endpoint = e, !.alias = a] :
                e \in Endpoints, a \in EndpointAliases}
      [] op = "AliasChain" ->
            {[NoArgs EXCEPT !.chain = ch, !.alias = a] :
                ch \in ChainRefs, a \in AliasNames}
      [] OTHER -> {NoArgs}

\* The RPC server decodes a request for one of the methods ops and enters the
\* handler with a zero reply.
Invoke(c, ops) ==
    /\ call[c].pc = "idle"
    /\ \E op \in ops : \E args \in ArgsFor(op) :
          call' = [call EXCEPT ![c] =
                      [IdleCall EXCEPT !.op = op,
                                       !.pc = "entry",
                                       !.filename = args.filename,
                                       !.alias = args.alias,
                                       !.endpoint = args.endpoint,
                                       !.chain = args.chain,
                                       !.idleEntry = (op = "StartCPUProfiler"
                                                      /\ activeStarts = 0)]]
    /\ UNCHANGED <<ctor, shared>>
    /\ History

\* The RPC server has sent the reply (or the error); the reply struct is
\* dropped, the slice it referred to is reclaimed, and the caller may send
\* its next request.
Return(c) ==
    /\ call[c].pc = "done"
    /\ call' = [call EXCEPT ![c] = IdleCall]
    /\ heap' = [a \in DOMAIN heap |->
                  IF a # LiveAddr /\ a = call[c].reply.peers THEN << >> ELSE heap[a]]
    /\ UNCHANGED <<ctor, service, cpuProfileFile, chainAliases, router,
                   aliasEntries>>
    /\ History

At(c, op, pc) == call[c].op = op /\ call[c].pc = pc

(***************************************************************************)
(* Identity handlers                                                       *)
(***************************************************************************)

GetNodeVersion(c) ==
    /\ At(c, "GetNodeVersion", "entry")
    /\ call' = [call EXCEPT ![c].reply.version = VersionString(service.version),
                            ![c].ret = Nil,
                            ![c].pc = "done"]
    /\ UNCHANGED <<ctor, shared>>
    /\ History

GetNodeID(c) ==
    /\ At(c, "GetNodeID", "entry")
    /\ call' = [call EXCEPT ![c].reply.nodeID = service.nodeID,
                            ![c].ret = Nil,
                            ![c].pc = "done"]
    /\ UNCHANGED <<ctor, shared>>
    /\ History

GetNetworkID(c) ==
    /\ At(c, "GetNetworkID", "entry")
    /\ call' = [call EXCEPT ![c].reply.networkID = Uint32(service.networkID),
                            ![c].ret = Nil,
                            ![c].pc = "done"]
    /\ UNCHANGED <<ctor, shared>>
    /\ History

GetNetworkName(c) ==
    /\ At(c, "GetNetworkName", "entry")
    /\ call' = [call EXCEPT ![c].reply.networkName = NetworkName(service.networkID),
                            ![c].ret = Nil,
                            ![c].pc = "done"]
    /\ UNCHANGED <<ctor, shared>>
    /\ History

\* logging.Stacktrace{Global: true}.String(): whatever the runtime dumps.
Stacktrace(c) ==
    /\ At(c, "Stacktrace", "entry")
    /\ \E dump \in StackDumps :
          call' = [call EXCEPT ![c].reply.stacktrace = dump,
                               ![c].calls = Append(@, "Stacktrace"),
                               ![c].ret = Nil,
                               ![c].pc = "done"]
    /\ UNCHANGED <<ctor, shared>>
    /\ History

(***************************************************************************)
(* Chain and peer facades                                                  *)
(***************************************************************************)

\* Variant: the handler returns a failed lookup's error before it writes
\* the reply.
GetBlockchainID_ReturnsEarly(c) ==
    /\ At(c, "GetBlockchainID", "entry")
    /\ LET r == ChainLookup(chainAliases, call[c].alias)
       IN  call' = [call EXCEPT ![c].reply.blockchainID =
                                    IF r.err # Nil THEN @ ELSE IDString(r.id),
                                ![c].calls = Append(@, "Lookup"),
                                ![c].cerr = r.err,
                                ![c].ret = r.err,
                                ![c].pc = "done"]
    /\ UNCHANGED <<ctor, shared>>
    /\ History

\* Variant: the lookup's error is dropped and nil is returned.
GetBlockchainID_DropsError(c) ==
    /\ At(c, "GetBlockchainID", "entry")
    /\ LET r == ChainLookup(chainAliases, call[c].alias)
       IN  call' = [call EXCEPT ![c].reply.blockchainID = IDString(r.id),
                                ![c].calls = Append(@, "Lookup"),
                                ![c].cerr = r.err,
                                ![c].ret = Nil,
                                ![c].pc = "done"]
    /\ UNCHANGED <<ctor, shared>>
    /\ History

\* bID, err := chainManager.Lookup(alias); reply.BlockchainID = bID.String();
\* return err
GetBlockchainID(c) ==
    /\ At(c, "GetBlockchainID", "entry")
    /\ LET r == ChainLookup(chainAliases, call[c].alias)
       IN  call' = [call EXCEPT ![c].reply.blockchainID = IDString(r.id),
                                ![c].calls = Append(@, "Lookup"),
                                ![c].cerr = r.err,
                                ![c].ret = r.err,
                                ![c].pc = "done"]
    /\ UNCHANGED <<ctor, shared>>
    /\ History

\* The slice addresses some reply still refers to.
InUse == {call[c].reply.peers : c \in Callers}

\* The address the allocator gives a newly made slice.
FreshAddr == CHOOSE a \in SnapshotAddrs \ InUse :
                \A b \in SnapshotAddrs \ InUse : a <= b

\* Variant: the reply refers to the network's own live peer list.
Peers_ReturnsLive(c) ==
    /\ At(c, "Peers", "entry")
    /\ call' = [call EXCEPT ![c].reply.peers = LiveAddr,
                            ![c].calls = Append(@, "Peers"),
                            ![c].snap = heap[LiveAddr],
                            ![c].ret = Nil,
                            ![c].pc = "done"]
    /\ UNCHANGED <<ctor, shared>>
    /\ History

\* reply.Peers = networking.Peers(): the reply refers to the slice the
\* network collaborator built for this call.
Peers(c) ==
    /\ At(c, "Peers", "entry")
    /\ LET addr == FreshAddr
           list == NetworkPeers(heap[LiveAddr])
       IN  /\ heap' = [heap EXCEPT ![addr] = list]
           /\ call' = [call EXCEPT ![c].reply.peers = addr,
                                   ![c].calls = Append(@, "Peers"),
                                   ![c].snap = list,
                                   ![c].ret = Nil,
                                   ![c].pc = "done"]
    /\ UNCHANGED <<ctor, service, cpuProfileFile, chainAliases, router,
                   aliasEntries>>
    /\ History

(***************************************************************************)
(* Profiler handlers                                                       *)
(***************************************************************************)

\* reply.Success = true (service.go lines 149, 161, 178, 195, 213)
SetSuccess(c, op) ==
    /\ At(c, op, "entry")
    /\ call' = [call EXCEPT ![c].reply.success = TRUE,
                            ![c].pc = "collab"]
    /\ UNCHANGED <<ctor, shared>>
    /\ History

\* Variant: the profile is written to a fixed file, not to args.Filename.
StartCPUProfilerCall_FixedFile(c) ==
    /\ At(c, "StartCPUProfiler", "collab")
    /\ LET r == PerfStartCPUProfiler(cpuProfileFile, "cpu.prof")
       IN  /\ cpuProfileFile' = r.file
           /\ call' = [call EXCEPT ![c].calls = Append(@, "StartCPUProfiler"),
                                   ![c].cerr = r.err,
                                   ![c].ret = r.err,
                                   ![c].pc = "done"]
    /\ UNCHANGED <<ctor, service, chainAliases, router, aliasEntries, heap>>
    /\ History

\* Variant: the collaborator's error is dropped and nil is returned.
StartCPUProfilerCall_DropsError(c) ==
    /\ At(c, "StartCPUProfiler", "collab")
    /\ LET r == PerfStartCPUProfiler(cpuProfileFile, call[c].filename)
       IN  /\ cpuProfileFile' = r.file
           /\ call' = [call EXCEPT ![c].calls = Append(@, "StartCPUProfiler"),
                                   ![c].cerr = r.err,
                                   ![c].ret = Nil,
                                   ![c].pc = "done"]
    /\ UNCHANGED <<ctor, service, chainAliases, router, aliasEntries, heap>>
    /\ History

\* Variant: a running profile is stopped first, so that Start restarts it.
StartCPUProfilerCall_Restarts(c) ==
    /\ At(c, "StartCPUProfiler", "collab")
    /\ LET s == PerfStopCPUProfiler(cpuProfileFile)
           r == PerfStartCPUProfiler(s.file, call[c].filename)
       IN  /\ cpuProfileFile' = r.file
           /\ call' = [call EXCEPT ![c].calls = Append(@, "StartCPUProfiler"),
                                   ![c].cerr = r.err,
                                   ![c].ret = r.err,
                                   ![c].pc = "done"]
    /\ UNCHANGED <<ctor, service, chainAliases, router, aliasEntries, heap>>
    /\ History

\* Variant: a failed Start cleans up by stopping the profiler.
StartCPUProfilerCall_StopsOnError(c) ==
    /\ At(c, "StartCPUProfiler", "collab")
    /\ LET r == PerfStartCPUProfiler(cpuProfileFile, call[c].filename)
       IN  /\ cpuProfileFile' = IF r.err # Nil
                                THEN PerfStopCPUProfiler(r.file).file
                                ELSE r.file
           /\ call' = [call EXCEPT ![c].calls = Append(@, "StartCPUProfiler"),
                                   ![c].cerr = r.err,
                                   ![c].ret = r.err,
                                   ![c].pc = "done"]
    /\ UNCHANGED <<ctor, service, chainAliases, router, aliasEntries, heap>>
    /\ History

\* return performance.StartCPUProfiler(args.Filename)
StartCPUProfilerCall(c) ==
    /\ At(c, "StartCPUProfiler", "collab")
    /\ LET r == PerfStartCPUProfiler(cpuProfileFile, call[c].filename)
       IN  /\ cpuProfileFile' = r.file
           /\ call' = [call EXCEPT ![c].calls = Append(@, "StartCPUProfiler"),
                                   ![c].cerr = r.err,
                                   ![c].ret = r.err,
                                   ![c].pc = "done"]
    /\ UNCHANGED <<ctor, service, chainAliases, router, aliasEntries, heap>>
    /\ History

StartCPUProfiler(c) ==
    \/ SetSuccess(c, "StartCPUProfiler")
    \/ StartCPUProfilerCall(c)

\* return performance.StopCPUProfiler()
StopCPUProfilerCall(c) ==
    /\ At(c, "StopCPUProfiler", "collab")
    /\ LET r == PerfStopCPUProfiler(cpuProfileFile)
       IN  /\ cpuProfileFile' = r.file
           /\ call' = [call EXCEPT ![c].calls = Append(@, "StopCPUProfiler"),
                                   ![c].cerr = r.err,
                                   ![c].ret = r.err,
                                   ![c].pc = "done"]
    /\ UNCHANGED <<ctor, service, chainAliases, router, aliasEntries, heap>>
    /\ History

StopCPUProfiler(c) ==
    \/ SetSuccess(c, "StopCPUProfiler")
    \/ StopCPUProfilerCall(c)

\* Variant: the handler calls the CPU profiler instead of the heap dump.
MemoryProfileCall_StartsCPU(c) ==
    /\ At(c, "MemoryProfile", "collab")
    /\ LET r == PerfStartCPUProfiler(cpuProfileFile, call[c].filename)
       IN  /\ cpuProfileFile' = r.file
           /\ call' = [call EXCEPT ![c].calls = Append(@, "StartCPUProfiler"),
                                   ![c].cerr = r.err,
                                   ![c].ret = r.err,
                                   ![c].pc = "done"]
    /\ UNCHANGED <<ctor, service, chainAliases, router, aliasEntries, heap>>
    /\ History

\* return performance.MemoryProfile(args.Filename)
MemoryProfileCall(c) ==
    /\ At(c, "MemoryProfile", "collab")
    /\ LET err == PerfMemoryProfile(call[c].filename)
       IN  call' = [call EXCEPT ![c].calls = Append(@, "MemoryProfile"),
                                ![c].cerr = err,
                                ![c].ret = err,
                                ![c].pc = "done"]
    /\ UNCHANGED <<ctor, shared>>
    /\ History

MemoryProfile(c) ==
    \/ SetSuccess(c, "MemoryProfile")
    \/ MemoryProfileCall(c)

\* Variant: the handler calls the CPU profiler's Stop instead of the lock dump.
LockProfileCall_StopsCPU(c) ==
    /\ At(c, "LockProfile", "collab")
    /\ LET r == PerfStopCPUProfiler(cpuProfileFile)
       IN  /\ cpuProfileFile' = r.file
           /\ call' = [call EXCEPT ![c].calls = Append(@, "StopCPUProfiler"),
                                   ![c].cerr = r.err,
                                   ![c].ret = r.err,
                                   ![c].pc = "done"]
    /\ UNCHANGED <<ctor, service, chainAliases, router, aliasEntries, heap>>
    /\ History

\* return performance.LockProfile(args.Filename)
LockProfileCall(c) ==
    /\ At(c, "LockProfile", "collab")
    /\ LET err == PerfLockProfile(call[c].filename)
       IN  call' = [call EXCEPT ![c].calls = Append(@, "LockProfile"),
                                ![c].cerr = err,
                                ![c].ret = err,
                                ![c].pc = "done"]
    /\ UNCHANGED <<ctor, shared>>
    /\ History

LockProfile(c) ==
    \/ SetSuccess(c, "LockProfile")
    \/ LockProfileCall(c)

(***************************************************************************)
(* Alias handlers                                                          *)
(***************************************************************************)

\* Variant: a new alias takes the place of the endpoint's earlier aliases.
AliasCall_Replaces(c) ==
    /\ At(c, "Alias", "collab")
    /\ LET old == {e \in aliasEntries : e[1] = call[c].endpoint}
           kept == [n \in DOMAIN router \ {e[2] : e \in old} |-> router[n]]
           r == ServerAddAliasesWithReadLock(kept, aliasEntries \ old,
                                             call[c].endpoint, call[c].alias)
       IN  /\ router' = r.table
           /\ aliasEntries' = r.entries
           /\ call' = [call EXCEPT
                  ![c].calls = Append(@, "AddAliasesWithReadLock"),
                  ![c].effects = IF r.err = Nil THEN @ \cup {"routeAlias"} ELSE @,
                  ![c].cerr = r.err,
                  ![c].ret = r.err,
                  ![c].pc = "done"]
    /\ UNCHANGED <<ctor, service, cpuProfileFile, chainAliases, heap>>
    /\ History

\* Variant: a refused registration is tried a second time.
AliasCall_Retries(c) ==
    /\ At(c, "Alias", "collab")
    /\ LET r == ServerAddAliasesWithReadLock(router, aliasEntries,
                                             call[c].endpoint, call[c].alias)
           again == r.err # Nil
       IN  /\ router' = r.table
           /\ aliasEntries' = r.entries
           /\ call' = [call EXCEPT
                  ![c].calls = IF again
                               THEN @ \o <<"AddAliasesWithReadLock",
                                           "AddAliasesWithReadLock">>
                               ELSE Append(@, "AddAliasesWithReadLock"),
                  ![c].effects = IF r.err = Nil THEN @ \cup {"routeAlias"} ELSE @,
                  ![c].cerr = r.err,
                  ![c].ret = r.err,
                  ![c].pc = "done"]
    /\ UNCHANGED <<ctor, service, cpuProfileFile, chainAliases, heap>>
    /\ History

\* return httpServer.AddAliasesWithReadLock(args.Endpoint, args.Alias)
AliasCall(c) ==
    /\ At(c, "Alias", "collab")
    /\ LET r == ServerAddAliasesWithReadLock(router, aliasEntries,
                                             call[c].endpoint, call[c].alias)
       IN  /\ router' = r.table
           /\ aliasEntries' = r.entries
           /\ call' = [call EXCEPT
                  ![c].calls = Append(@, "AddAliasesWithReadLock"),
                  ![c].effects = IF r.err = Nil THEN @ \cup {"routeAlias"} ELSE @,
                  ![c].cerr = r.err,
                  ![c].ret = r.err,
                  ![c].pc = "done"]
    /\ UNCHANGED <<ctor, service, cpuProfileFile, chainAliases, heap>>
    /\ History

Alias(c) ==
    \/ SetSuccess(c, "Alias")
    \/ AliasCall(c)

\* Variant: a failed lookup is reported as a new error that wraps the cause.
AliasChainLookup_WrapsError(c) ==
    /\ At(c, "AliasChain", "entry")
    /\ LET r == ChainLookup(chainAliases, call[c].chain)
       IN  call' = [call EXCEPT
                  ![c].calls = Append(@, "Lookup"),
                  ![c].chainID = r.id,
                  ![c].cerr = r.err,
                  ![c].ret = IF r.err # Nil
                             THEN "couldn't alias chain: " \o r.err
                             ELSE Nil,
                  ![c].pc = IF r.err # Nil THEN "done" ELSE "alias"]
    /\ UNCHANGED <<ctor, shared>>
    /\ History

\* chainID, err := chainManager.Lookup(args.Chain); if err != nil return err
AliasChainLookup(c) ==
    /\ At(c, "AliasChain", "entry")
    /\ LET r == ChainLookup(chainAliases, call[c].chain)
       IN  call' = [call EXCEPT
                  ![c].calls = Append(@, "Lookup"),
                  ![c].chainID = r.id,
                  ![c].cerr = r.err,
                  ![c].ret = r.err,
                  ![c].pc = IF r.err # Nil THEN "done" ELSE "alias"]
    /\ UNCHANGED <<ctor, shared>>
    /\ History

\* Variant: the chain manager's error is not checked and the handler goes on.
AliasChainAlias_Unchecked(c) ==
    /\ At(c, "AliasChain", "alias")
    /\ LET r == ChainAlias(chainAliases, call[c].chainID, call[c].alias)
       IN  /\ chainAliases' = r.aliases
           /\ call' = [call EXCEPT
                  ![c].calls = Append(@, "Alias"),
                  ![c].effects = IF r.err = Nil THEN @ \cup {"chainAlias"} ELSE @,
                  ![c].cerr = r.err,
                  ![c].pc = "success"]
    /\ UNCHANGED <<ctor, service, cpuProfileFile, router, aliasEntries, heap>>
    /\ History

\* Variant: the alias is not registered with the chain manager.
AliasChainAlias_Skipped(c) ==
    /\ At(c, "AliasChain", "alias")
    /\ call' = [call EXCEPT ![c].pc = "success"]
    /\ UNCHANGED <<ctor, shared>>
    /\ History

\* if err := chainManager.Alias(chainID, args.Alias); err != nil return err
AliasChainAlias(c) ==
    /\ At(c, "AliasChain", "alias")
    /\ LET r == ChainAlias(chainAliases, call[c].chainID, call[c].alias)
       IN  /\ chainAliases' = r.aliases
           /\ call' = [call EXCEPT
                  ![c].calls = Append(@, "Alias"),
                  ![c].effects = IF r.err = Nil THEN @ \cup {"chainAlias"} ELSE @,
                  ![c].cerr = r.err,
                  ![c].ret = r.err,
                  ![c].pc = IF r.err # Nil THEN "done" ELSE "success"]
    /\ UNCHANGED <<ctor, service, cpuProfileFile, router, aliasEntries, heap>>
    /\ History

\* reply.Success = true
AliasChainSuccess(c) ==
    /\ At(c, "AliasChain", "success")
    /\ call' = [call EXCEPT ![c].reply.success = TRUE,
                            ![c].pc = "collab"]
    /\ UNCHANGED <<ctor, shared>>
    /\ History

\* Variant: the routing table's error is dropped and nil is returned.
AliasChainRoute_DropsError(c) ==
    /\ At(c, "AliasChain", "collab")
    /\ LET r == ServerAddAliasesWithReadLock(router, aliasEntries,
                   "bc/" \o IDString(call[c].chainID), "bc/" \o call[c].alias)
       IN  /\ router' = r.table
           /\ aliasEntries' = r.entries
           /\ call' = [call EXCEPT
                  ![c].calls = Append(@, "AddAliasesWithReadLock"),
                  ![c].effects = IF r.err = Nil THEN @ \cup {"routeAlias"} ELSE @,
                  ![c].cerr = r.err,
                  ![c].ret = Nil,
                  ![c].pc = "done"]
    /\ UNCHANGED <<ctor, service, cpuProfileFile, chainAliases, heap>>
    /\ History

\* return httpServer.AddAliasesWithReadLock("bc/"+chainID.String(),
\*                                          "bc/"+args.Alias)
AliasChainRoute(c) ==
    /\ At(c, "AliasChain", "collab")
    /\ LET r == ServerAddAliasesWithReadLock(router, aliasEntries,
                   "bc/" \o IDString(call[c].chainID), "bc/" \o call[c].alias)
       IN  /\ router' = r.table
           /\ aliasEntries' = r.entries
           /\ call' = [call EXCEPT
                  ![c].calls = Append(@, "AddAliasesWithReadLock"),
                  ![c].effects = IF r.err = Nil THEN @ \cup {"routeAlias"} ELSE @,
                  ![c].cerr = r.err,
                  ![c].ret = r.err,
                  ![c].pc = "done"]
    /\ UNCHANGED <<ctor, service, cpuProfileFile, chainAliases, heap>>
    /\ History

AliasChain(c) ==
    \/ AliasChainLookup(c)
    \/ AliasChainAlias(c)
    \/ AliasChainSuccess(c)
    \/ AliasChainRoute(c)

(***************************************************************************)
(* Alias registration under the routing table's lock                       *)
(*                                                                         *)
(* The steps below split the routing-table call of Alias and AliasChain    *)
(* into taking the table's lock and registering under it, and add the      *)
(* transport's request routing, which reads the table under the same lock. *)
(* A caller at "rlocked" holds the lock with read intent, a caller at      *)
(* "xlocked" holds it exclusively.                                         *)
(***************************************************************************)

\* Paths the transport routes requests to.
RoutePaths == {"bc/idA", "bc/a"}

ReadHolders == {c \in Callers : call[c].pc = "rlocked"}
WriteHolders == {c \in Callers : call[c].pc = "xlocked"}

\* api.Server: caller c takes the routing table's lock through the
\* registration primitive named op.  Read intent is granted unless the lock
\* is held exclusively; the exclusive lock is granted when nobody holds it.
ServerLock(c, op, mode) ==
    /\ call[c].pc = "collab"
    /\ IF mode = "read"
       THEN WriteHolders = {}
       ELSE ReadHolders \cup WriteHolders = {}
    /\ call' = [call EXCEPT
                  ![c].calls = Append(@, op),
                  ![c].pc = IF mode = "read" THEN "rlocked" ELSE "xlocked"]
    /\ UNCHANGED <<ctor, shared>>
    /\ History

\* api.Server: caller c, holding the lock, registers alias for endpoint and
\* gives the lock back.
ServerRegister(c, endpoint, alias) ==
    /\ call[c].pc \in {"rlocked", "xlocked"}
    /\ LET r == ServerAddAliasesWithReadLock(router, aliasEntries, endpoint, alias)
       IN  /\ router' = r.table
           /\ aliasEntries' = r.entries
           /\ call' = [call EXCEPT
                  ![c].effects = IF r.err = Nil THEN @ \cup {"routeAlias"} ELSE @,
                  ![c].cerr = r.err,
                  ![c].ret = r.err,
                  ![c].pc = "done"]
    /\ UNCHANGED <<ctor, service, cpuProfileFile, chainAliases, heap>>
    /\ History

\* Variant: the handler registers through the exclusive-lock primitive.
AliasBegin_Exclusive(c) ==
    /\ call[c].op = "Alias"
    /\ ServerLock(c, "AddAliases", "write")

\* Alias enters httpServer.AddAliasesWithReadLock(...)
AliasBegin(c) ==
    /\ call[c].op = "Alias"
    /\ ServerLock(c, "AddAliasesWithReadLock", "read")

\* ... and returns what it returns
AliasFinish(c) ==
    /\ call[c].op = "Alias"
    /\ ServerRegister(c, call[c].endpoint, call[c].alias)

\* AliasChain enters httpServer.AddAliasesWithReadLock(...)
AliasChainRouteBegin(c) ==
    /\ call[c].op = "AliasChain"
    /\ ServerLock(c, "AddAliasesWithReadLock", "read")

\* ... and returns what it returns
AliasChainRouteFinish(c) ==
    /\ call[c].op = "AliasChain"
    /\ ServerRegister(c, "bc/" \o IDString(call[c].chainID),
                         "bc/" \o call[c].alias)

\* a request for some path reaches the transport
RouteInvoke(c) ==
    /\ call[c].pc = "idle"
    /\ \E p \in RoutePaths :
          call' = [call EXCEPT ![c] = [IdleCall EXCEPT !.op = "Route",
                                                       !.pc = "entry",
                                                       !.endpoint = p]]
    /\ UNCHANGED <<ctor, shared>>
    /\ History

\* the transport takes the routing table's lock with read intent
RouteBegin(c) ==
    /\ At(c, "Route", "entry")
    /\ WriteHolders = {}
    /\ call' = [call EXCEPT ![c].pc = "rlocked"]
    /\ UNCHANGED <<ctor, shared>>
    /\ History

\* the transport looks the path up, gives the lock back and dispatches
RouteServe(c) ==
    /\ At(c, "Route", "rlocked")
    /\ call' = [call EXCEPT
                  ![c].ret = IF call[c].endpoint \in DOMAIN router
                             THEN Nil ELSE ErrNoEndpoint,
                  ![c].pc = "done"]
    /\ UNCHANGED <<ctor, shared>>
    /\ History

(***************************************************************************)
(* The network collaborator's own activity                                 *)
(***************************************************************************)

Live == heap[LiveAddr]
Connected == {Live[i].ID : i \in 1 .. Len(Live)}

\* a peer connects: its record is added to the live list
NetConnect(p) ==
    /\ p \notin Connected
    /\ heap' = [heap EXCEPT ![LiveAddr] = Append(@, PeerID(p, 0, 0))]
    /\ UNCHANGED <<ctor, service, cpuProfileFile, chainAliases, router,
                   aliasEntries, call>>
    /\ History

\* a peer disconnects: its record is removed from the live list
NetDisconnect(p) ==
    /\ p \in Connected
    /\ heap' = [heap EXCEPT ![LiveAddr] = SelectSeq(@, LAMBDA r : r.ID # p)]
    /\ UNCHANGED <<ctor, service, cpuProfileFile, chainAliases, router,
                   aliasEntries, call>>
    /\ History

\* a message is sent to a peer: its live record is updated in place
NetSend(p) ==
    /\ \E i \in 1 .. Len(Live) :
          /\ Live[i].ID = p
          /\ Live[i].LastSent < MaxTime
          /\ heap' = [heap EXCEPT ![LiveAddr][i].LastSent = @ + 1]
    /\ UNCHANGED <<ctor, service, cpuProfileFile, chainAliases, router,
                   aliasEntries, call>>
    /\ History

\* a message is received from a peer: its live record is updated in place
NetReceive(p) ==
    /\ \E i \in 1 .. Len(Live) :
          /\ Live[i].ID = p
          /\ Live[i].LastReceived < MaxTime
          /\ heap' = [heap EXCEPT ![LiveAddr][i].LastReceived = @ + 1]
    /\ UNCHANGED <<ctor, service, cpuProfileFile, chainAliases, router,
                   aliasEntries, call>>
    /\ History

(***************************************************************************)
(* Specifications                                                          *)
(*                                                                         *)
(* Spec runs every method of the service, one request at a time, together  *)
(* with the network's own activity.  The profiler, the alias tables and    *)
(* the peer list share no state, so concurrent requests are explored per   *)
(* component: SpecProfiler, SpecAlias and SpecPeers let all callers run    *)
(* the methods of one component under every interleaving of their steps.   *)
(***************************************************************************)

ProfilerOps == {"StartCPUProfiler", "StopCPUProfiler", "MemoryProfile",
                "LockProfile"}
AliasOps == {"GetBlockchainID", "Alias", "AliasChain"}
PeerOps == {"Peers"}

Handler(c) ==
    \/ GetNodeVersion(c)
    \/ GetNodeID(c)
    \/ GetNetworkID(c)
    \/ GetNetworkName(c)
    \/ GetBlockchainID(c)
    \/ Peers(c)
    \/ StartCPUProfiler(c)
    \/ StopCPUProfiler(c)
    \/ MemoryProfile(c)
    \/ LockProfile(c)
    \/ Alias(c)
    \/ AliasChain(c)
    \/ Stacktrace(c)

Network ==
    \E p \in PeerIds : NetConnect(p) \/ NetDisconnect(p) \/ NetSend(p) \/ NetReceive(p)

\* the caller of the sequential specification
FirstCaller == "c1"

Next ==
    \/ Invoke(FirstCaller, OpNames)
    \/ Handler(FirstCaller)
    \/ Return(FirstCaller)
    \/ Network

Spec == Init /\ [][Next]_vars

NextProfiler ==
    \E c \in Callers :
        \/ Invoke(c, ProfilerOps)
        \/ StartCPUProfiler(c)
        \/ StopCPUProfiler(c)
        \/ MemoryProfile(c)
        \/ LockProfile(c)
        \/ Return(c)

SpecProfiler == Init /\ [][NextProfiler]_vars

NextAlias ==
    \E c \in Callers :
        \/ Invoke(c, AliasOps)
        \/ GetBlockchainID(c)
        \/ Alias(c)
        \/ AliasChain(c)
        \/ Return(c)

SpecAlias == Init /\ [][NextAlias]_vars

NextPeers ==
    \/ \E c \in Callers :
          \/ Invoke(c, PeerOps)
          \/ Peers(c)
          \/ Return(c)
    \/ Network

SpecPeers == Init /\ [][NextPeers]_vars

(***************************************************************************)
(* Properties                                                              *)
(***************************************************************************)

\* caller c's handler op has returned and its result is still at hand
Done(c, op) == call[c].pc = "done" /\ call[c].op = op

Creatable(f) == f \notin UncreatableFiles

\* C1: in any sequence of StartCPUProfiler and StopCPUProfiler calls from the
\* freshly constructed service, at most one Start succeeds without a
\* successful Stop in between, and a Stop issued when no successful Start is
\* outstanding (at construction, or right after a successful Stop) returns
\* NotInProgress.
C1_StartStopAlternate ==
    /\ [](activeStarts <= 1)
    /\ [][\A c \in Callers :
            (Completes(c, "StopCPUProfiler") /\ activeStarts = 0)
                => call'[c].ret = ErrNotInProgress]_vars

\* C1 witness: one caller's Stop has succeeded and the other caller's Stop
\* has been refused with NotInProgress.
C1_Witness ==
    \E c, d \in Callers :
        /\ Done(c, "StopCPUProfiler") /\ call[c].ret = Nil
        /\ Done(d, "StopCPUProfiler") /\ call[d].ret = ErrNotInProgress
        /\ activeStarts = 0

C3_AliasChainAllOrNothing ==
    \A c \in Callers :
        Done(c, "AliasChain") =>
            \/ /\ call[c].ret = Nil
               /\ call[c].effects = {"chainAlias", "routeAlias"}
               /\ call[c].alias \in DOMAIN chainAliases
               /\ ("bc/" \o call[c].alias) \in DOMAIN router
            \/ /\ call[c].ret # Nil
               /\ call[c].effects = {}

\* C4: after a successful AliasChain(C, a), with C resolved to X, the paths
\* "bc/X" and "bc/a" are routed to the same handler; after a successful
\* Alias(endpoint, b) the name b is routed to the endpoint's handler; and
\* every alias registered so far is still routed to its path's handler.
C4_AliasesShareHandler ==
    /\ \A c \in Callers :
          (Done(c, "AliasChain") /\ call[c].ret = Nil) =>
              LET path == "bc/" \o IDString(call[c].chainID)
                  name == "bc/" \o call[c].alias
              IN  /\ chainAliases[call[c].chain] = call[c].chainID
                  /\ path \in DOMAIN router
                  /\ name \in DOMAIN router
                  /\ router[name] = router[path]
    /\ \A c \in Callers :
          (Done(c, "Alias") /\ call[c].ret = Nil) =>
              /\ call[c].endpoint \in DOMAIN router
              /\ call[c].alias \in DOMAIN router
              /\ router[call[c].alias] = router[call[c].endpoint]
    /\ \A e \in aliasEntries :
          /\ e[1] \in DOMAIN router
          /\ e[2] \in DOMAIN router
          /\ router[e[2]] = router[e[1]]

\* C4 witness: AliasChain("C", "a") and Alias("bc/idA", "second") have both
\* succeeded, and the three names reach chain idA's handler.
C4_Witness ==
    \E c, d \in Callers :
        /\ Done(c, "AliasChain") /\ call[c].ret = Nil
        /\ call[c].chain = "C" /\ call[c].alias = "a"
        /\ Done(d, "Alias") /\ call[d].ret = Nil
        /\ call[d].endpoint = "bc/idA" /\ call[d].alias = "second"
        /\ router["bc/idA"] = "handlerA"
        /\ router["bc/a"] = "handlerA"
        /\ router["second"] = "handlerA"

\* C5: GetBlockchainID with an alias that is not registered returns NotFound
\* and changes neither the chain-alias table, nor the routing-table aliases,
\* nor the profiler state.
C5_LookupMissNoEffect ==
    [][\A c \in Callers :
         (Completes(c, "GetBlockchainID") /\ call[c].alias \notin DOMAIN chainAliases)
            => /\ call'[c].ret = ErrNotFound
               /\ UNCHANGED <<chainAliases, router, aliasEntries, cpuProfileFile>>]_vars

\* C5 witness: a lookup of the unregistered name "zz" has returned NotFound
\* on a service that is CPU profiling and has aliases registered.
C5_Witness ==
    \E c \in Callers :
        /\ Done(c, "GetBlockchainID")
        /\ call[c].alias \notin DOMAIN chainAliases
        /\ call[c].ret = ErrNotFound
        /\ cpuProfileFile # NoFile
        /\ aliasEntries # {}

\* C6: a handler that received an error from a collaborator returns exactly
\* that error.
C6_ErrorsPassThrough ==
    \A c \in Callers :
        (call[c].pc = "done" /\ call[c].cerr # Nil) => call[c].ret = call[c].cerr

\* C6 witness: AliasChain has returned the error of its third collaborator
\* call, the routing table's refusal of a name that is in use.
C6_Witness ==
    \E c \in Callers :
        /\ Done(c, "AliasChain")
        /\ Len(call[c].calls) = 3
        /\ call[c].cerr = ErrAliasInUse
        /\ call[c].ret = ErrAliasInUse

\* C7: a failed profiler transition leaves ProfilerState as it was: a Start
\* refused with AlreadyInProgress leaves CPUProfiling with the path opened
\* before, a Start that fails with IOError leaves Idle, a Stop refused with
\* NotInProgress leaves Idle.
C7_FailedTransitionKeepsState ==
    [][\A c \in Callers :
         /\ (Completes(c, "StartCPUProfiler") /\ call'[c].ret = ErrAlreadyInProgress)
               => (cpuProfileFile # NoFile /\ cpuProfileFile' = cpuProfileFile)
         /\ (Completes(c, "StartCPUProfiler") /\ call'[c].ret = ErrIO)
               => (cpuProfileFile = NoFile /\ cpuProfileFile' = NoFile)
         /\ (Completes(c, "StopCPUProfiler") /\ call'[c].ret = ErrNotInProgress)
               => (cpuProfileFile = NoFile /\ cpuProfileFile' = NoFile)
         /\ ( /\ Completes(c, "StartCPUProfiler") \/ Completes(c, "StopCPUProfiler")
              /\ call'[c].ret # Nil )
               => cpuProfileFile' = cpuProfileFile]_vars

\* C7 witness: a Start naming another file has been refused with
\* AlreadyInProgress and the profile still goes to the file opened first.
C7_Witness ==
    \E c \in Callers :
        /\ Done(c, "StartCPUProfiler")
        /\ call[c].ret = ErrAlreadyInProgress
        /\ Creatable(call[c].filename)
        /\ cpuProfileFile \notin {NoFile, call[c].filename}

\* C8: MemoryProfile and LockProfile succeed in either profiler state when
\* the file can be created, and otherwise fail with IOError and nothing else.
C8_SnapshotsAnyState ==
    \A c \in Callers :
        (Done(c, "MemoryProfile") \/ Done(c, "LockProfile")) =>
            /\ Creatable(call[c].filename) => call[c].ret = Nil
            /\ ~Creatable(call[c].filename) => call[c].ret = ErrIO

\* C8 witness: while a CPU profile is running, a MemoryProfile and a
\* LockProfile have both succeeded.
C8_Witness ==
    \E c, d \in Callers :
        /\ Done(c, "MemoryProfile") /\ call[c].ret = Nil
        /\ Done(d, "LockProfile") /\ call[d].ret = Nil
        /\ cpuProfileFile # NoFile

\* C9: GetNodeVersion, GetNodeID, GetNetworkID and GetNetworkName return, on
\* every call, the value derived from the identity given at construction,
\* whatever other operations ran before.
C9_IdentityStable ==
    \A c \in Callers :
        /\ Done(c, "GetNodeVersion") =>
              (call[c].ret = Nil /\ call[c].reply.version = VersionString(ctor.version))
        /\ Done(c, "GetNodeID") =>
              (call[c].ret = Nil /\ call[c].reply.nodeID = ctor.nodeID)
        /\ Done(c, "GetNetworkID") =>
              (call[c].ret = Nil /\ call[c].reply.networkID = ctor.networkID)
        /\ Done(c, "GetNetworkName") =>
              (call[c].ret = Nil /\ call[c].reply.networkName = NetworkName(ctor.networkID))

\* C9 witness: GetNetworkName has answered "local" on a service that is CPU
\* profiling, has aliases registered and has a connected peer.
C9_Witness ==
    \E c \in Callers :
        /\ Done(c, "GetNetworkName")
        /\ call[c].reply.networkName = "local"
        /\ cpuProfileFile # NoFile
        /\ aliasEntries # {}
        /\ Len(Live) > 0

\* C10: the list a Peers call returned keeps the records it was returned
\* with, whatever the network does to its live peers afterwards.
C10_PeersSnapshotIndependent ==
    \A c \in Callers :
        Done(c, "Peers") => heap[call[c].reply.peers] = call[c].snap

\* C10 witness: a returned list holds a peer record that the live list no
\* longer holds in that form.
C10_Witness ==
    \E c \in Callers :
        /\ Done(c, "Peers")
        /\ Len(call[c].snap) > 0
        /\ heap[call[c].reply.peers] = call[c].snap
        /\ Live # call[c].snap

SuccessOps == {"StartCPUProfiler", "StopCPUProfiler", "MemoryProfile",
               "LockProfile", "Alias", "AliasChain"}

\* C11: a call of StartCPUProfiler, StopCPUProfiler, MemoryProfile,
\* LockProfile, Alias or AliasChain ends either with no error and the reply's
\* success set, or with an error and the reply's success not set.
C11_SuccessXorError ==
    \A c \in Callers :
        (call[c].pc = "done" /\ call[c].op \in SuccessOps) =>
            \/ (call[c].ret = Nil /\ call[c].reply.success)
            \/ (call[c].ret # Nil /\ ~call[c].reply.success)

\* C12: once AliasChain(chainReference, alias) has succeeded with the
\* reference resolved to chain X, every GetBlockchainID(alias) that returns
\* afterwards returns X's ID and no error.
C12_AliasThenLookup ==
    [][\A c \in Callers : \A e \in aliased :
         (Completes(c, "GetBlockchainID") /\ call[c].alias = e[1])
            => /\ call'[c].ret = Nil
               /\ call'[c].reply.blockchainID = IDString(e[2])]_vars

\* C12 witness: AliasChain("idB", "a") succeeded earlier and its caller has
\* moved on; GetBlockchainID("a") has now answered chain idB.
C12_Witness ==
    \E c \in Callers :
        /\ Done(c, "GetBlockchainID")
        /\ call[c].alias = "a"
        /\ <<"a", 2>> \in aliased
        /\ \A d \in Callers : call[d].op # "AliasChain"
        /\ call[c].ret = Nil
        /\ call[c].reply.blockchainID = "idB"

\* C13: the successful profiler transitions are Idle -> CPUProfiling and
\* CPUProfiling -> Idle and no other: a Start issued while Idle with a file
\* that can be opened succeeds and leaves CPUProfiling with that file as
\* output; a Stop issued while CPUProfiling succeeds and leaves Idle; a
\* successful Start or Stop is one of these two.
C13_ProfilerTransitions ==
    [][\A c \in Callers :
         /\ ( /\ Completes(c, "StartCPUProfiler")
              /\ cpuProfileFile = NoFile
              /\ Creatable(call[c].filename) )
               => (call'[c].ret = Nil /\ cpuProfileFile' = call[c].filename)
         /\ (Completes(c, "StopCPUProfiler") /\ cpuProfileFile # NoFile)
               => (call'[c].ret = Nil /\ cpuProfileFile' = NoFile)
         /\ (Completes(c, "StartCPUProfiler") /\ call'[c].ret = Nil)
               => (cpuProfileFile = NoFile /\ cpuProfileFile' = call[c].filename
                   /\ cpuProfileFile' # NoFile)
         /\ (Completes(c, "StopCPUProfiler") /\ call'[c].ret = Nil)
               => (cpuProfileFile # NoFile /\ cpuProfileFile' = NoFile)]_vars

\* C13 witness: a Stop has succeeded and, after it, a new Start has
\* succeeded: the profile now goes to "mem.prof", the file of that Start.
C13_Witness ==
    \E c, d \in Callers :
        /\ Done(c, "StopCPUProfiler") /\ call[c].ret = Nil
        /\ Done(d, "StartCPUProfiler") /\ call[d].ret = Nil
        /\ call[d].filename = "mem.prof"
        /\ cpuProfileFile = "mem.prof"

\* C14: ProfilerState changes only in a step in which StartCPUProfiler or
\* StopCPUProfiler returns successfully; every step of every other operation
\* leaves it unchanged, and a running CPU profile ends only by a successful
\* StopCPUProfiler.
C14_OnlyStartStopChangeProfiler ==
    [][ /\ cpuProfileFile' # cpuProfileFile
            => \E c \in Callers :
                  /\ call'[c].ret = Nil
                  /\ \/ Completes(c, "StartCPUProfiler")
                     \/ Completes(c, "StopCPUProfiler")
        /\ (cpuProfileFile # NoFile /\ cpuProfileFile' # cpuProfileFile)
            => \E c \in Callers :
                  Completes(c, "StopCPUProfiler") /\ call'[c].ret = Nil
        /\ \A c \in Callers :
              (call[c].op \notin {"none", "StartCPUProfiler", "StopCPUProfiler"}
               /\ call'[c] # call[c])
                  => cpuProfileFile' = cpuProfileFile ]_vars

\* C14 witness: LockProfile has run to its end while the CPU profile started
\* before it is still being written.
C14_Witness ==
    \E c \in Callers :
        /\ Done(c, "LockProfile")
        /\ call[c].ret = Nil
        /\ activeStarts = 1
        /\ cpuProfileFile = "cpu.prof"

\* The collaborator operations of AliasChain, in the order of the source.
AliasChainOrder == <<"Lookup", "Alias", "AddAliasesWithReadLock">>

\* C15: AliasChain calls its collaborators in the order Lookup, chain Alias,
\* routing-table alias, each only after the earlier ones succeeded: a call
\* whose lookup failed has made no registration and changed no table, and a
\* call whose chain-alias registration failed has not touched the routing
\* table.
C15_AliasChainStepOrder ==
    /\ [](\A c \in Callers :
            call[c].op = "AliasChain" =>
                LET n == Len(call[c].calls)
                IN  /\ n <= 3
                    /\ call[c].calls = SubSeq(AliasChainOrder, 1, n)
                    /\ n >= 2 => /\ call[c].chain \in DOMAIN chainAliases
                                 /\ call[c].chainID = chainAliases[call[c].chain]
                    /\ n = 3 => "chainAlias" \in call[c].effects
                    /\ "routeAlias" \in call[c].effects
                          => "chainAlias" \in call[c].effects
                    /\ (call[c].pc = "done" /\ n = 1)
                          => (call[c].ret = ErrNotFound /\ call[c].effects = {})
                    /\ (call[c].pc = "done" /\ n = 2)
                          => (call[c].ret # Nil /\ call[c].effects = {}))
    /\ [][\A c \in Callers :
            /\ (Completes(c, "AliasChain") /\ Len(call'[c].calls) <= 2)
                  => UNCHANGED <<chainAliases, router, aliasEntries>>
            /\ (call[c].op = "AliasChain" /\ call'[c] # call[c]
                /\ Len(call'[c].calls) <= 2)
                  => UNCHANGED <<router, aliasEntries>>]_vars

\* C15 witness: an AliasChain whose chain-alias registration was refused has
\* returned after two collaborator calls, and "bc/a" is not routed.
C15_Witness ==
    \E c \in Callers :
        /\ Done(c, "AliasChain")
        /\ call[c].calls = <<"Lookup", "Alias">>
        /\ call[c].ret = ErrAliasInUse
        /\ "bc/a" \notin DOMAIN router

\* no collaborator operation occurs twice in the sequence s
NoRepeat(s) == \A i, j \in 1 .. Len(s) : s[i] = s[j] => i = j

\* C16 as stated: a handler other than AliasChain calls at most one
\* collaborator operation, AliasChain calls two, and none calls the same
\* operation twice.
C16_AtMostOneOrTwoCalls ==
    \A c \in Callers :
        /\ call[c].op # "AliasChain" => Len(call[c].calls) <= 1
        /\ call[c].op = "AliasChain" => Len(call[c].calls) <= 2
        /\ NoRepeat(call[c].calls)

\* C16 amended: a handler other than AliasChain calls at most one
\* collaborator operation; AliasChain calls up to three, Lookup and Alias of
\* the chain manager and AddAliasesWithReadLock of the HTTP server, and all
\* three when it succeeds; no handler calls the same operation twice.
C16_AtMostOneOrThreeCalls ==
    \A c \in Callers :
        /\ call[c].op # "AliasChain" => Len(call[c].calls) <= 1
        /\ call[c].op = "AliasChain" =>
              /\ Len(call[c].calls) <= 3
              /\ (call[c].pc = "done" /\ call[c].ret = Nil)
                    => call[c].calls = AliasChainOrder
        /\ NoRepeat(call[c].calls)

\* C16 witness: a successful AliasChain has made its three collaborator calls.
C16_Witness ==
    \E c \in Callers :
        /\ Done(c, "AliasChain")
        /\ call[c].ret = Nil
        /\ Len(call[c].calls) = 3
        /\ NoRepeat(call[c].calls)

\* C18: an alias that a successful Alias or AliasChain registered for a
\* routing path stays registered for that path, and routed to the same
\* handler, in every later state; a successful call leaves its own alias
\* registered; several aliases may name one path.
C18_AliasesPersist ==
    [][ /\ aliasEntries \subseteq aliasEntries'
        /\ \A n \in DOMAIN router :
              n \in DOMAIN router' /\ router'[n] = router[n]
        /\ \A c \in Callers :
              (Completes(c, "Alias") /\ call'[c].ret = Nil)
                  => <<call[c].endpoint, call[c].alias>> \in aliasEntries'
        /\ \A c \in Callers :
              (Completes(c, "AliasChain") /\ call'[c].ret = Nil)
                  => <<"bc/" \o IDString(call[c].chainID), "bc/" \o call[c].alias>>
                        \in aliasEntries' ]_vars

\* C18 witness: the path "bc/idA" has the two aliases "bc/a" and "second",
\* the first registered by an AliasChain whose caller has since moved on.
C18_Witness ==
    /\ {<<"bc/idA", "bc/a">>, <<"bc/idA", "second">>} \subseteq aliasEntries
    /\ <<"a", 1>> \in aliased
    /\ \A c \in Callers : call[c].op # "AliasChain"
    /\ router["bc/a"] = "handlerA"
    /\ router["second"] = "handlerA"

\* C19: GetBlockchainID writes the reply's blockchainID from the ID the
\* lookup returned whether or not the lookup failed: after a hit the reply
\* holds the chain's ID string with no error, after a miss the caller has the
\* NotFound error and a reply holding the string form of the empty ID, not
\* the untouched field.
C19_ReplyWrittenOnMiss ==
    \A c \in Callers :
        Done(c, "GetBlockchainID") =>
            /\ call[c].reply.blockchainID # ZeroReply.blockchainID
            /\ call[c].ret = Nil =>
                  /\ call[c].alias \in DOMAIN chainAliases
                  /\ call[c].reply.blockchainID = IDString(chainAliases[call[c].alias])
            /\ call[c].ret # Nil =>
                  /\ call[c].ret = ErrNotFound
                  /\ call[c].reply.blockchainID = IDString(EmptyID)

\* C19 witness: GetBlockchainID("zz") has returned NotFound and its reply
\* holds the string form of the empty ID.
C19_Witness ==
    \E c \in Callers :
        /\ Done(c, "GetBlockchainID")
        /\ call[c].alias = "zz"
        /\ call[c].ret = ErrNotFound
        /\ call[c].reply.blockchainID = IDString(EmptyID)
        /\ call[c].reply.blockchainID # ""

\* Alias registrations, step by step under the routing table's lock, beside
\* the transport's request routing.  The scheduler runs every thread that
\* can run, so a request that can take the lock, or holds it, goes on.
NextRouting ==
    \E c \in Callers :
        \/ Invoke(c, {"Alias", "AliasChain"})
        \/ SetSuccess(c, "Alias")
        \/ AliasBegin(c)
        \/ AliasFinish(c)
        \/ AliasChainLookup(c)
        \/ AliasChainAlias(c)
        \/ AliasChainSuccess(c)
        \/ AliasChainRouteBegin(c)
        \/ AliasChainRouteFinish(c)
        \/ RouteInvoke(c)
        \/ RouteBegin(c)
        \/ RouteServe(c)
        \/ Return(c)

SpecRouting ==
    /\ Init
    /\ [][NextRouting]_vars
    /\ \A c \in Callers : WF_vars(RouteBegin(c)) /\ WF_vars(RouteServe(c))

\* caller c's routing-table registration is in flight
Registering(c) ==
    /\ call[c].op \in {"Alias", "AliasChain"}
    /\ call[c].pc \in {"rlocked", "xlocked"}

\* C17: Alias and AliasChain register routing-table aliases only through the
\* read-intent primitive, never holding the table's lock exclusively; while
\* a registration is in flight a request can take the lock, and every
\* request that waits for the routing table is served.
C17_ReadIntentRegistration ==
    /\ [](\A c \in Callers :
            call[c].op \in {"Alias", "AliasChain"} =>
                /\ call[c].pc # "xlocked"
                /\ \A i \in 1 .. Len(call[c].calls) :
                      call[c].calls[i] \in {"Lookup", "Alias",
                                            "AddAliasesWithReadLock"})
    /\ []((\E c \in Callers : Registering(c)) => WriteHolders = {})
    /\ \A c \in Callers : At(c, "Route", "entry") ~> Done(c, "Route")

\* C17 witness: while one caller's alias registration is in flight a
\* request of the other caller holds the routing table's lock too.
C17_Witness ==
    \E c, d \in Callers :
        /\ Registering(c)
        /\ call[c].calls[Len(call[c].calls)] = "AddAliasesWithReadLock"
        /\ call[d].op = "Route"
        /\ call[d].pc = "rlocked"

====
